---- MODULE Spec2Model ----
(***************************************************************************)
(* Model of buffonpi.py: the round ledger of the Buffon's needle app.      *)
(*                                                                         *)
(*   db      the SQLite file buffon_needle.db: whether the file (with its  *)
(*           rounds table) exists, and the rows of the table, keyed by the *)
(*           primary key round_number                                      *)
(*   rounds  self.rounds of each BuffonNeedleSimulation object, one object *)
(*           per Streamlit session (st.session_state.simulation)           *)
(*   last    the call made by the last step: which method, on which        *)
(*           object, with which arguments, called by whom, how it ended    *)
(*   inserted  history: the rows written since the file was last removed,  *)
(*           in the order of their INSERT statements                       *)
(*   calls   the number of calls the two sessions have made so far         *)
(*   show_clear_dialog  st.session_state.show_clear_dialog of each session *)
(*                                                                         *)
(* A Python float is modelled by the exact ratio it was computed from, as  *)
(* a fraction in lowest terms with a positive denominator: int / int is    *)
(* correctly rounded, so equal ratios give equal floats and, for the small *)
(* integers used here, different ratios give different floats.             *)
(* float('inf') is the fraction 1/0.                                       *)
(***************************************************************************)
EXTENDS Integers, Sequences, FiniteSets

VARIABLES db, rounds, last, inserted, calls, show_clear_dialog

vars == <<db, rounds, last, inserted, calls, show_clear_dialog>>

\* Bounds of the model.
MaxRounds == 2      \* rows a table holds, and rounds an object holds, at most
MaxCount == 2       \* largest count passed to add_round
MaxNeg == 1         \* smallest intersections value passed to add_round is -MaxNeg
MaxCalls == 4       \* calls made in all by two sessions sharing the file

\* The two simulation objects: two browser sessions of the app.
Sessions == {1, 2}

\* Arguments of a direct call add_round(intersections, total_needles). The
\* method takes any int; 0 stands for the non-positive total_needles values.
IntersectionArgs == (0 - MaxNeg)..MaxCount
NeedleArgs == 0..MaxCount

----------------------------------------------------------------------------
\* Floats

Abs(x) == IF x < 0 THEN 0 - x ELSE x

RECURSIVE GCD(_, _)
GCD(a, b) == IF b = 0 THEN a ELSE GCD(b, a % b)

\* float('inf')
Inf == [num |-> 1, den |-> 0]

\* The exception int / 0 raises, as a value no float equals.
ZeroDivisionError == [num |-> 0, den |-> 0]

\* a / b on two ints
TrueDiv(a, b) ==
    IF b = 0 THEN ZeroDivisionError
    ELSE LET g == GCD(Abs(a), Abs(b))
             sgn == IF b < 0 THEN 0 - 1 ELSE 1
         IN [num |-> (sgn * a) \div g, den |-> (sgn * b) \div g]

----------------------------------------------------------------------------
\* RoundInfo and the rounds table

RoundInfo(n, i, t, c) ==
    [round_number |-> n, intersections |-> i, total_needles |-> t, cumulative_pi |-> c]

\* RoundInfo.round_pi
round_pi(r) ==
    IF r.intersections > 0 THEN TrueDiv(r.total_needles, r.intersections) ELSE Inf

\* No file on disk.
NoFile == [file |-> FALSE, rows |-> {}]

\* os.remove(self.db_path)
os_remove(d) == NoFile

\* init_database creating the table anew on every call.
init_database_recreate(d) == [file |-> TRUE, rows |-> {}]

\* connect() creates the file when it is missing; CREATE TABLE IF NOT EXISTS
\* leaves an existing table and its rows alone.
init_database(d) == IF d.file THEN d ELSE [file |-> TRUE, rows |-> {}]

\* SELECT ... FROM rounds ORDER BY round_number, each row as a RoundInfo.
RECURSIVE OrderByRoundNumber(_)
OrderByRoundNumber(S) ==
    IF S = {} THEN <<>>
    ELSE LET m == CHOOSE r \in S : \A q \in S : r.round_number <= q.round_number
         IN <<m>> \o OrderByRoundNumber(S \ {m})

load_rounds(d) == OrderByRoundNumber(d.rows)

\* INSERT OR REPLACE: a row whose round_number is taken replaces the old one.
sql_insert_or_replace(d, row) ==
    [db |-> [d EXCEPT !.rows = {r \in @ : r.round_number # row.round_number} \cup {row}],
     error |-> FALSE]

\* INSERT INTO rounds VALUES (...): round_number is the PRIMARY KEY, so a
\* row whose round_number is taken raises sqlite3.IntegrityError and the
\* connection's context manager rolls back.
sql_insert(d, row) ==
    IF \E r \in d.rows : r.round_number = row.round_number
    THEN [db |-> d, error |-> TRUE]
    ELSE [db |-> [d EXCEPT !.rows = @ \cup {row}], error |-> FALSE]

----------------------------------------------------------------------------
\* BuffonNeedleSimulation

RECURSIVE SumIntersections(_)
SumIntersections(rs) ==
    IF rs = <<>> THEN 0 ELSE rs[1].intersections + SumIntersections(Tail(rs))

RECURSIVE SumNeedles(_)
SumNeedles(rs) ==
    IF rs = <<>> THEN 0 ELSE rs[1].total_needles + SumNeedles(Tail(rs))

\* The estimate without the test of total_intersections.
calculate_cumulative_pi_unguarded(rs, new_intersections, new_total_needles) ==
    LET total_intersections == SumIntersections(rs) + new_intersections
        total_needles == SumNeedles(rs) + new_total_needles
    IN TrueDiv(total_needles, total_intersections)

\* The estimate with a factor of 2: 2 * total_needles / total_intersections.
calculate_cumulative_pi_doubled(rs, new_intersections, new_total_needles) ==
    LET total_intersections == SumIntersections(rs) + new_intersections
        total_needles == SumNeedles(rs) + new_total_needles
    IN IF total_intersections > 0
       THEN TrueDiv(2 * total_needles, total_intersections)
       ELSE Inf

calculate_cumulative_pi(rs, new_intersections, new_total_needles) ==
    LET total_intersections == SumIntersections(rs) + new_intersections
        total_needles == SumNeedles(rs) + new_total_needles
    IN IF total_intersections > 0
       THEN TrueDiv(total_needles, total_intersections)
       ELSE Inf

\* self.rounds as it is, not reversed.
get_rounds_for_display_unreversed(rs) == rs

\* list(reversed(self.rounds))
get_rounds_for_display(rs) == [k \in 1..Len(rs) |-> rs[Len(rs) + 1 - k]]

\* A call as the last step made it; before is the number of rows the table
\* held when the call began. via is the caller: "api" (a direct call), "main"
\* (the form), or the key of the button whose press made main call. A run of
\* main that calls no method is the call "main", via the key pressed.
Call(op, s, i, t, via, outcome) ==
    [op |-> op, s |-> s, intersections |-> i, total_needles |-> t,
     via |-> via, outcome |-> outcome, before |-> Cardinality(db.rows)]

\* BuffonNeedleSimulation(): a new object for session s on the same file.
new_simulation(s) ==
    /\ db' = init_database(db)
    /\ rounds' = [rounds EXCEPT ![s] = load_rounds(init_database(db))]
    /\ last' = Call("__init__", s, 0, 0, "main", "ok")
    /\ UNCHANGED inserted

\* add_round numbering from len(self.rounds), without the + 1.
add_round_from_zero(s, intersections, total_needles, via) ==
    LET cumulative_pi == calculate_cumulative_pi(rounds[s], intersections, total_needles)
        next_round == Len(rounds[s])
        row == RoundInfo(next_round, intersections, total_needles, cumulative_pi)
        res == sql_insert(db, row)
    IN /\ Len(rounds[s]) < MaxRounds
       /\ Cardinality(db.rows) < MaxRounds
       /\ IF res.error
          THEN /\ last' = Call("add_round", s, intersections, total_needles, via, "IntegrityError")
               /\ UNCHANGED <<db, rounds, inserted>>
          ELSE /\ db' = res.db
               /\ rounds' = [rounds EXCEPT ![s] = load_rounds(res.db)]
               /\ inserted' = Append(inserted, row)
               /\ last' = Call("add_round", s, intersections, total_needles, via, "ok")

\* add_round bringing the estimate of every stored row up to date as well.
add_round_recompute(s, intersections, total_needles, via) ==
    LET cumulative_pi == calculate_cumulative_pi(rounds[s], intersections, total_needles)
        next_round == Len(rounds[s]) + 1
        row == RoundInfo(next_round, intersections, total_needles, cumulative_pi)
        res == sql_insert(db, row)
        updated == [res.db EXCEPT !.rows = {[r EXCEPT !.cumulative_pi = cumulative_pi] : r \in @}]
    IN /\ Len(rounds[s]) < MaxRounds
       /\ Cardinality(db.rows) < MaxRounds
       /\ IF res.error
          THEN /\ last' = Call("add_round", s, intersections, total_needles, via, "IntegrityError")
               /\ UNCHANGED <<db, rounds, inserted>>
          ELSE /\ db' = updated
               /\ rounds' = [rounds EXCEPT ![s] = load_rounds(updated)]
               /\ inserted' = Append(inserted, row)
               /\ last' = Call("add_round", s, intersections, total_needles, via, "ok")

\* add_round without its last line, self.rounds = self.load_rounds().
add_round_no_reload(s, intersections, total_needles, via) ==
    LET cumulative_pi == calculate_cumulative_pi(rounds[s], intersections, total_needles)
        next_round == Len(rounds[s]) + 1
        row == RoundInfo(next_round, intersections, total_needles, cumulative_pi)
        res == sql_insert(db, row)
    IN /\ Len(rounds[s]) < MaxRounds
       /\ Cardinality(db.rows) < MaxRounds
       /\ IF res.error
          THEN /\ last' = Call("add_round", s, intersections, total_needles, via, "IntegrityError")
               /\ UNCHANGED <<db, rounds, inserted>>
          ELSE /\ db' = res.db
               /\ inserted' = Append(inserted, row)
               /\ last' = Call("add_round", s, intersections, total_needles, via, "ok")
               /\ UNCHANGED rounds

add_round(s, intersections, total_needles, via) ==
    LET cumulative_pi == calculate_cumulative_pi(rounds[s], intersections, total_needles)
        next_round == Len(rounds[s]) + 1
        row == RoundInfo(next_round, intersections, total_needles, cumulative_pi)
        res == sql_insert(db, row)
    IN /\ Len(rounds[s]) < MaxRounds
       /\ Cardinality(db.rows) < MaxRounds
       /\ IF res.error
          THEN /\ last' = Call("add_round", s, intersections, total_needles, via, "IntegrityError")
               /\ UNCHANGED <<db, rounds, inserted>>
          ELSE /\ db' = res.db
               /\ rounds' = [rounds EXCEPT ![s] = load_rounds(res.db)]
               /\ inserted' = Append(inserted, row)
               /\ last' = Call("add_round", s, intersections, total_needles, via, "ok")

\* add_round when the storage raises sqlite3.OperationalError at the INSERT
\* (connect, execute or commit) with the row written all the same.
add_round_storage_error_no_rollback(s, intersections, total_needles, via, at) ==
    LET cumulative_pi == calculate_cumulative_pi(rounds[s], intersections, total_needles)
        next_round == Len(rounds[s]) + 1
        row == RoundInfo(next_round, intersections, total_needles, cumulative_pi)
        res == sql_insert(db, row)
    IN /\ Len(rounds[s]) < MaxRounds
       /\ Cardinality(db.rows) < MaxRounds
       /\ IF res.error
          THEN /\ last' = Call("add_round", s, intersections, total_needles, via, "IntegrityError")
               /\ UNCHANGED <<db, rounds, inserted>>
          ELSE /\ db' = res.db
               /\ inserted' = Append(inserted, row)
               /\ last' = Call("add_round", s, intersections, total_needles, via,
                               IF at = "INSERT" THEN "OperationalError at INSERT"
                               ELSE "OperationalError at SELECT")
               /\ UNCHANGED rounds

\* add_round when the storage raises sqlite3.OperationalError, either at the
\* INSERT (connect, execute or commit: the with block rolls back and the
\* error leaves add_round) or at the SELECT of load_rounds (the INSERT is
\* committed already, and self.rounds is not assigned).
add_round_storage_error(s, intersections, total_needles, via, at) ==
    LET cumulative_pi == calculate_cumulative_pi(rounds[s], intersections, total_needles)
        next_round == Len(rounds[s]) + 1
        row == RoundInfo(next_round, intersections, total_needles, cumulative_pi)
        res == sql_insert(db, row)
    IN /\ Len(rounds[s]) < MaxRounds
       /\ Cardinality(db.rows) < MaxRounds
       /\ IF at = "INSERT"
          THEN /\ last' = Call("add_round", s, intersections, total_needles, via,
                               "OperationalError at INSERT")
               /\ UNCHANGED <<db, rounds, inserted>>
          ELSE IF res.error
          THEN /\ last' = Call("add_round", s, intersections, total_needles, via, "IntegrityError")
               /\ UNCHANGED <<db, rounds, inserted>>
          ELSE /\ db' = res.db
               /\ inserted' = Append(inserted, row)
               /\ last' = Call("add_round", s, intersections, total_needles, via,
                               "OperationalError at SELECT")
               /\ UNCHANGED rounds

\* clear_data without its last line, self.rounds = [].
clear_data_keeps_rounds(s, via) ==
    /\ db' = init_database(IF db.file THEN os_remove(db) ELSE db)
    /\ inserted' = <<>>
    /\ last' = Call("clear_data", s, 0, 0, via, "ok")
    /\ UNCHANGED rounds

clear_data(s, via) ==
    /\ db' = init_database(IF db.file THEN os_remove(db) ELSE db)
    /\ rounds' = [rounds EXCEPT ![s] = <<>>]
    /\ inserted' = <<>>
    /\ last' = Call("clear_data", s, 0, 0, via, "ok")

----------------------------------------------------------------------------
\* main

\* A number input created without min_value and max_value.
number_input_unbounded(min_value, max_value) == (0 - MaxNeg)..MaxCount

\* st.number_input(min_value, max_value): the values the widget can hold.
number_input(min_value, max_value) == min_value..max_value

\* The form "Add New Round", submitted.
submit(s) ==
    \E total_needles \in number_input(1, MaxCount) :
        \E intersections \in number_input(1, total_needles) :
            /\ intersections > 0
            /\ add_round(s, intersections, total_needles, "main")

\* The widgets main drew in the session's last run, which can be pressed.
Rendered(s) ==
    {"clear_btn", "new_round_form"}
        \cup (IF show_clear_dialog[s] THEN {"confirm_clear", "cancel_clear"} ELSE {})

\* main clearing as soon as "Clear All Data" is pressed, without the dialog.
main_clear_at_once(s, pressed) ==
    IF pressed = "clear_btn"
    THEN /\ clear_data(s, "clear_btn")
         /\ UNCHANGED show_clear_dialog
    ELSE IF pressed = "new_round_form"
    THEN /\ submit(s)
         /\ UNCHANGED show_clear_dialog
    ELSE /\ show_clear_dialog' = [show_clear_dialog EXCEPT ![s] = FALSE]
         /\ last' = Call("main", s, 0, 0, pressed, "ok")
         /\ UNCHANGED <<db, rounds, inserted>>

\* One run of main in session s, started by the press of one widget.
\* st.rerun() ends the run, so a press of "Yes, Clear Data" or "Cancel"
\* never reaches the form.
main(s, pressed) ==
    LET dialog == pressed = "clear_btn" \/ show_clear_dialog[s]
    IN IF dialog /\ pressed = "confirm_clear"
       THEN /\ clear_data(s, "confirm_clear")
            /\ show_clear_dialog' = [show_clear_dialog EXCEPT ![s] = FALSE]
       ELSE IF dialog /\ pressed = "cancel_clear"
       THEN /\ show_clear_dialog' = [show_clear_dialog EXCEPT ![s] = FALSE]
            /\ last' = Call("main", s, 0, 0, pressed, "ok")
            /\ UNCHANGED <<db, rounds, inserted>>
       ELSE IF pressed = "new_round_form"
       THEN /\ submit(s)
            /\ show_clear_dialog' = [show_clear_dialog EXCEPT ![s] = dialog]
       ELSE /\ show_clear_dialog' = [show_clear_dialog EXCEPT ![s] = dialog]
            /\ last' = Call("main", s, 0, 0, pressed, "ok")
            /\ UNCHANGED <<db, rounds, inserted>>

----------------------------------------------------------------------------
\* Steps

\* A method that only reads.
Query(op, s) ==
    /\ last' = Call(op, s, 0, 0, "api", "ok")
    /\ UNCHANGED <<db, rounds, inserted, calls, show_clear_dialog>>

AddRound(s) ==
    /\ \E i \in IntersectionArgs : \E t \in NeedleArgs : add_round(s, i, t, "api")
    /\ UNCHANGED <<calls, show_clear_dialog>>

Submit(s) == submit(s) /\ UNCHANGED <<calls, show_clear_dialog>>

ClearData(s) == clear_data(s, "api") /\ UNCHANGED <<calls, show_clear_dialog>>

Restart(s) == new_simulation(s) /\ UNCHANGED <<calls, show_clear_dialog>>

CalculateCumulativePi(s) == Query("calculate_cumulative_pi", s)

\* get_rounds_for_display reversing the list in place: self.rounds.reverse().
GetRoundsForDisplayInPlace(s) ==
    /\ rounds' = [rounds EXCEPT ![s] = get_rounds_for_display(rounds[s])]
    /\ last' = Call("get_rounds_for_display", s, 0, 0, "api", "ok")
    /\ UNCHANGED <<db, inserted, calls, show_clear_dialog>>

GetRoundsForDisplay(s) == Query("get_rounds_for_display", s)

\* The chronological view: main reads simulation.rounds for the plot.
ReadRounds(s) == Query("rounds", s)

RoundPi(s) == rounds[s] # <<>> /\ Query("round_pi", s)

Init ==
    /\ db = init_database(NoFile)
    /\ rounds = [s \in Sessions |-> load_rounds(init_database(NoFile))]
    /\ last = Call("__init__", 1, 0, 0, "main", "ok")
    /\ inserted = <<>>
    /\ calls = 0
    /\ show_clear_dialog = [s \in Sessions |-> FALSE]

\* One simulation object, used by one caller.
Next ==
    \/ AddRound(1)
    \/ Submit(1)
    \/ ClearData(1)
    \/ Restart(1)
    \/ CalculateCumulativePi(1)
    \/ GetRoundsForDisplay(1)
    \/ ReadRounds(1)
    \/ RoundPi(1)

Spec == Init /\ [][Next]_vars

\* One simulation object whose storage may fail during the add_round of a
\* submitted form.
SubmitStorageError(s) ==
    /\ \E total_needles \in number_input(1, MaxCount) :
          \E intersections \in number_input(1, total_needles) :
             \E at \in {"INSERT", "SELECT"} :
                 /\ intersections > 0
                 /\ add_round_storage_error(s, intersections, total_needles, "main", at)
    /\ UNCHANGED <<calls, show_clear_dialog>>

NextFaulty == AddRound(1) \/ SubmitStorageError(1) \/ ClearData(1) \/ Restart(1)

SpecFaulty == Init /\ [][NextFaulty]_vars

\* The sessions of the app, each driven through its own widgets; calls
\* counts the runs of main.
Run == calls < MaxCalls /\ calls' = calls + 1

PressClearAll ==
    Run /\ \E s \in Sessions : "clear_btn" \in Rendered(s) /\ main(s, "clear_btn")

PressYes ==
    Run /\ \E s \in Sessions : "confirm_clear" \in Rendered(s) /\ main(s, "confirm_clear")

PressCancel ==
    Run /\ \E s \in Sessions : "cancel_clear" \in Rendered(s) /\ main(s, "cancel_clear")

PressNextRound ==
    Run /\ \E s \in Sessions : "new_round_form" \in Rendered(s) /\ main(s, "new_round_form")

\* A new browser session: session_state is empty, so main constructs the
\* simulation and sets show_clear_dialog to False.
NewSession ==
    /\ Run
    /\ \E s \in Sessions :
          /\ new_simulation(s)
          /\ show_clear_dialog' = [show_clear_dialog EXCEPT ![s] = FALSE]

NextUI == PressClearAll \/ PressYes \/ PressCancel \/ PressNextRound \/ NewSession

SpecUI == Init /\ [][NextUI]_vars

\* Two sessions of the app, each with its own object, on one file; every
\* call runs to its end before the next begins.
Counted == calls < MaxCalls /\ calls' = calls + 1 /\ UNCHANGED show_clear_dialog

SubmitShared == Counted /\ \E s \in Sessions : submit(s)

ClearShared == Counted /\ \E s \in Sessions : clear_data(s, "main")

RestartShared == Counted /\ \E s \in Sessions : new_simulation(s)

NextShared == SubmitShared \/ ClearShared \/ RestartShared

SpecShared == Init /\ [][NextShared]_vars

----------------------------------------------------------------------------
\* Properties

\* The ascending scan of the table.
Scan == load_rounds(db)

\* The sum of a field over the first k rounds of rs.
RECURSIVE IntersectionsUpTo(_, _)
IntersectionsUpTo(rs, k) ==
    IF k = 0 THEN 0 ELSE IntersectionsUpTo(rs, k - 1) + rs[k].intersections

RECURSIVE NeedlesUpTo(_, _)
NeedlesUpTo(rs, k) ==
    IF k = 0 THEN 0 ELSE NeedlesUpTo(rs, k - 1) + rs[k].total_needles

\* The float x is the quotient t / i.
IsQuotient(x, t, i) == x.den > 0 /\ x.num * i = t * x.den

\* C1: with one simulation object, the scan of the table is the rows
\* inserted since the last clear_data, in the order of their insertion, and
\* the k-th of them has round_number k: the numbers are 1..N without a gap,
\* N being the number of add_round calls that have succeeded since then.
C1_MonotonicNumbering ==
    /\ Scan = inserted
    /\ \A k \in 1..Len(Scan) : Scan[k].round_number = k

C1_Witness ==
    /\ last.op = "add_round" /\ last.outcome = "ok"
    /\ Len(inserted) = 2
    /\ Scan[2].round_number = 2

C3_FrozenHistory ==
    [][LET before == load_rounds(db)
           after == load_rounds(db')
       IN IF last'.op = "add_round" /\ last'.outcome = "ok"
          THEN /\ Len(after) = Len(before) + 1
               /\ SubSeq(after, 1, Len(before)) = before
          ELSE IF last'.op = "clear_data"
          THEN after = <<>>
          ELSE after = before]_vars

C3_Witness ==
    /\ last.op = "add_round" /\ last.outcome = "ok"
    /\ last.before = 1
    /\ Len(Scan) = 2
    /\ Scan[1].cumulative_pi # Scan[2].cumulative_pi

\* C4: clear_data leaves the scan of the table and self.rounds empty, and
\* the add_round that follows it writes round_number 1.
C4_ClearThenAdd ==
    [][/\ last'.op = "clear_data" =>
            /\ load_rounds(db') = <<>>
            /\ rounds'[last'.s] = <<>>
       /\ last.op = "clear_data" /\ last'.op = "add_round" =>
            /\ last'.outcome = "ok"
            /\ Len(load_rounds(db')) = 1
            /\ load_rounds(db')[1].round_number = 1
            /\ rounds'[last'.s] = load_rounds(db')]_vars

C4_Witness ==
    /\ last.op = "clear_data"
    /\ last.before = 2
    /\ Scan = <<>>
    /\ rounds[1] = <<>>

C6_ViewEqualsStore == rounds[1] = Scan

C6_Witness ==
    /\ last.op = "add_round" /\ last.outcome = "ok"
    /\ Len(rounds[1]) = 2
    /\ rounds[1] = Scan

\* C7: constructing a new simulation object on the same file changes no
\* stored row and loads all of them; init_database on a table that exists
\* changes nothing, once or repeatedly; and the add_round that follows writes
\* round_number N + 1 with the estimate aggregated over the N stored rounds
\* and the new one.
C7_RestartKeepsData ==
    [][/\ last'.op = "__init__" =>
            /\ db' = db
            /\ rounds'[last'.s] = load_rounds(db)
            /\ init_database(db') = db'
            /\ init_database(init_database(db)) = init_database(db)
       /\ last.op = "__init__" /\ last'.op = "add_round" =>
            LET n == Cardinality(db.rows)
                after == load_rounds(db')
                i == IntersectionsUpTo(after, n + 1)
                t == NeedlesUpTo(after, n + 1)
            IN /\ last'.outcome = "ok"
               /\ Len(after) = n + 1
               /\ SubSeq(after, 1, n) = load_rounds(db)
               /\ after[n + 1].round_number = n + 1
               /\ after[n + 1].intersections = last'.intersections
               /\ after[n + 1].total_needles = last'.total_needles
               /\ IF i > 0
                  THEN IsQuotient(after[n + 1].cumulative_pi, t, i)
                  ELSE after[n + 1].cumulative_pi = Inf]_vars

C7_Witness ==
    /\ last.op = "__init__"
    /\ last.before >= 1
    /\ Len(Scan) = last.before
    /\ rounds[1] = Scan

\* C8: an INSERT of a round_number the table already holds fails with the
\* constraint error (sqlite3.IntegrityError) and leaves every stored row as
\* it was; add_round ends with that error exactly when the number it
\* computed is taken.
C8_NoOverwrite ==
    [][last'.op = "add_round" =>
            LET taken == \E r \in db.rows : r.round_number = Len(rounds[last'.s]) + 1
            IN /\ taken => last'.outcome = "IntegrityError" /\ db' = db
               /\ last'.outcome = "IntegrityError" => taken /\ db' = db]_vars

C8_Witness ==
    /\ last.op = "add_round" /\ last.outcome = "IntegrityError"
    /\ \E r \in db.rows :
          /\ r.round_number = Len(rounds[last.s]) + 1
          /\ <<r.intersections, r.total_needles>> # <<last.intersections, last.total_needles>>

\* C9: calculate_cumulative_pi never raises: for the rounds of any
\* reachable object and any arguments it is total_needles over
\* total_intersections when total_intersections > 0 and the sentinel
\* otherwise; round_pi is the round's own total_needles over its own
\* intersections when intersections > 0 and the sentinel otherwise.
C9_NoZeroDivision ==
    /\ \A i \in IntersectionArgs : \A t \in NeedleArgs :
          LET x == calculate_cumulative_pi(rounds[1], i, t)
              ti == IntersectionsUpTo(rounds[1], Len(rounds[1])) + i
              tt == NeedlesUpTo(rounds[1], Len(rounds[1])) + t
          IN /\ x # ZeroDivisionError
             /\ IF ti > 0 THEN IsQuotient(x, tt, ti) ELSE x = Inf
    /\ \A k \in 1..Len(rounds[1]) :
          LET r == rounds[1][k]
              x == round_pi(r)
          IN /\ x # ZeroDivisionError
             /\ IF r.intersections > 0
                THEN IsQuotient(x, r.total_needles, r.intersections)
                ELSE x = Inf

C9_Witness ==
    /\ last.op = "calculate_cumulative_pi"
    /\ Len(rounds[1]) = 2
    /\ rounds[1][1].intersections < 0
    /\ IntersectionsUpTo(rounds[1], 2) = 0
    /\ calculate_cumulative_pi(rounds[1], 0, 1) = Inf
    /\ round_pi(rounds[1][1]) = Inf

\* C10: get_rounds_for_display returns self.rounds reversed: the same
\* length, and its i-th element (from 0) is the round with round_number
\* T - i, the record at position T - i of the chronological view.
C10_ReverseChronological ==
    LET v == get_rounds_for_display(rounds[1])
        T == Len(rounds[1])
    IN /\ Len(v) = T
       /\ \A i \in 0..(T - 1) :
             /\ v[i + 1].round_number = T - i
             /\ v[i + 1] = rounds[1][T - i]

C10_Witness ==
    /\ last.op = "get_rounds_for_display"
    /\ Len(rounds[1]) = 2
    /\ get_rounds_for_display(rounds[1])[1].round_number = 2

\* C11 as stated: whenever add_round ends, either the new round is in the
\* table and self.rounds includes it, or the table and self.rounds are both
\* as they were before the call.
C11_AsStated ==
    [][last'.op = "add_round" =>
            \/ db' = db /\ rounds' = rounds
            \/ /\ Cardinality(db'.rows) = Cardinality(db.rows) + 1
               /\ rounds'[last'.s] = load_rounds(db')]_vars

\* C11, amended: add_round ends in one of three ways. Normally: the new
\* round is in the table and self.rounds is the reloaded scan, which
\* includes it. With an error at the INSERT: the table and self.rounds are
\* as before the call. With a storage error at the reload: the new round is
\* in the table and self.rounds is as before the call, without it; a fresh
\* load of the table (a new object) holds the round.
C11_AppendThenReload ==
    [][last'.op = "add_round" =>
            LET s == last'.s
                appended ==
                    /\ Cardinality(db'.rows) = Cardinality(db.rows) + 1
                    /\ db.rows \subseteq db'.rows
                    /\ \E r \in db'.rows \ db.rows :
                          /\ r.round_number = Len(rounds[s]) + 1
                          /\ r.intersections = last'.intersections
                          /\ r.total_needles = last'.total_needles
            IN IF last'.outcome = "ok"
               THEN appended /\ rounds'[s] = load_rounds(db')
               ELSE IF last'.outcome = "OperationalError at SELECT"
               THEN /\ appended
                    /\ rounds' = rounds
                    /\ Len(load_rounds(init_database(db'))) = Len(load_rounds(db)) + 1
               ELSE db' = db /\ rounds' = rounds]_vars

C11_Witness ==
    /\ last.op = "add_round"
    /\ last.outcome = "OperationalError at SELECT"
    /\ Len(rounds[1]) = 1
    /\ Cardinality(db.rows) = 2
    /\ rounds[1] # Scan

\* C12: with one simulation object whose calls all run to their end, the
\* round_number the next add_round would write, len(self.rounds) + 1, is
\* never in the table, and no add_round ends with the constraint error
\* (sqlite3.IntegrityError), after any add_round, clear_data and restart.
C12_NoConstraintViolation ==
    /\ last.outcome # "IntegrityError"
    /\ \A r \in db.rows : r.round_number # Len(rounds[1]) + 1

C12_Witness ==
    /\ last.op = "__init__"
    /\ Cardinality(db.rows) = 1
    /\ Len(rounds[1]) = 1
    /\ \A r \in db.rows : r.round_number = 1
    /\ ENABLED AddRound(1)

\* C13: with two simulation objects on one file and every add_round and
\* clear_data running alone from its start to its end, every add_round
\* succeeds, the round numbers in the table are 1..N without a gap, and the
\* estimate stored with each round is aggregated over the rounds the table
\* held when it was written and the new one.
C13_AsStated ==
    /\ last.op = "add_round" => last.outcome = "ok"
    /\ \A k \in 1..Len(Scan) :
          /\ Scan[k].round_number = k
          /\ IsQuotient(Scan[k].cumulative_pi, NeedlesUpTo(Scan, k), IntersectionsUpTo(Scan, k))

\* C14: calculate_cumulative_pi, round_pi and the two views (self.rounds
\* read as it is, get_rounds_for_display) change nothing: a call of any of
\* them, repeated or not, leaves self.rounds and the table as they were, so
\* the estimate for the same arguments and both views are the same after
\* the call as before it.
C14_ReadsChangeNothing ==
    [][last'.op \in {"calculate_cumulative_pi", "get_rounds_for_display", "rounds", "round_pi"} =>
            /\ db' = db
            /\ rounds' = rounds
            /\ get_rounds_for_display(rounds'[last'.s]) = get_rounds_for_display(rounds[last'.s])
            /\ \A i \in IntersectionArgs :
                  calculate_cumulative_pi(rounds'[last'.s], i, MaxCount)
                      = calculate_cumulative_pi(rounds[last'.s], i, MaxCount)]_vars

C14_Witness ==
    /\ last.op \in {"calculate_cumulative_pi", "get_rounds_for_display", "rounds"}
    /\ Len(rounds[1]) = 2
    /\ rounds[1][1].round_number = 1
    /\ rounds[1][1].cumulative_pi # rounds[1][2].cumulative_pi

\* C15: in the UI clear_data is the second step of two: it runs only in a
\* run of main where show_clear_dialog was already true and "Yes, Clear
\* Data" is pressed; the flag becomes true only by a press of "Clear All
\* Data", which changes no round; "Cancel" resets the flag and changes no
\* round; after "Yes, Clear Data" and after "Cancel" the flag is false; and
\* rounds leave the table by clear_data only.
C15_TwoStepClear ==
    [][LET s == last'.s
       IN /\ last'.op = "clear_data" =>
                /\ show_clear_dialog[s]
                /\ last'.via = "confirm_clear"
                /\ ~show_clear_dialog'[s]
                /\ db'.rows = {} /\ rounds'[s] = <<>>
          /\ last'.op = "main" /\ last'.via = "cancel_clear" =>
                /\ show_clear_dialog[s]
                /\ ~show_clear_dialog'[s]
                /\ db' = db /\ rounds' = rounds
          /\ last'.op = "main" /\ last'.via = "clear_btn" =>
                /\ show_clear_dialog'[s]
                /\ db' = db /\ rounds' = rounds
          /\ show_clear_dialog'[s] /\ ~show_clear_dialog[s] =>
                last'.op = "main" /\ last'.via = "clear_btn"
          /\ ~(db.rows \subseteq db'.rows) => last'.op = "clear_data"]_vars

C15_Witness ==
    /\ last.op = "clear_data"
    /\ last.via = "confirm_clear"
    /\ last.before = 2
    /\ ~show_clear_dialog[1]
    /\ db.rows = {}

====
